---- MODULE Spec2Model ----
(***************************************************************************)
(* The order-notification worker: a BullMQ worker with concurrency 1 whose *)
(* handler processOrderMessage renders a message, (in three of the four    *)
(* revisions) asks the gateway whether the instance is connected, sends    *)
(* the text and turns a failure into return / throw / moveToDelayed /      *)
(* moveToFailed.  The repository holds four revisions of the handler:      *)
(*   "worker"  src/src/worker.ts                                           *)
(*   "part0a"  src/unnamed/part_000, lines 1-305                           *)
(*   "part0b"  src/unnamed/part_000, lines 307-621                         *)
(*   "part1"   src/unnamed/part_001                                        *)
(* A behaviour runs one of them (rev, fixed by Init).                      *)
(***************************************************************************)
EXTENDS Integers, Sequences, FiniteSets, TLC

VARIABLES
    rev,        \* the revision of the handler that is deployed
    attempts,   \* job option "attempts" given by the producer
    jobData,    \* job.data of every job: type, order, sequence, evolutionInstance
    jobs,       \* queue-side state of every job: state, attemptsMade, delays, delay
    wait,       \* the wait list, head is fetched next
    active,     \* the job the worker is processing, NoJob when idle
    pc,         \* position of the handler: idle, start, check, send, returned, thrown
    att,        \* what the current attempt has done so far
    sentLog,    \* the sends the gateway accepted, in order
    workerError, \* the worker emitted "error" (a finished job was no longer active)
    proc,       \* the worker process: running, closing (worker.close() pending), exited
    calc        \* a pricing / rendering function applied to an input on its own

vars == <<rev, attempts, jobData, jobs, wait, active, pc, att, sentLog, workerError,
          proc, calc>>

-----------------------------------------------------------------------------
(* Bounds *)

MaxAttempts == 2
MaxDelays == 1

-----------------------------------------------------------------------------
(* Values *)

Revisions == {"worker", "part0a", "part0b", "part1"}

NoJob == 0
JobIds == {1, 2}

\* "undefined" for the numeric fields status / response.status
NoStatus == 0
NoCode == "none"

Statuses == {"in_preparation", "completed", "pending"}

\* Math.random() * 60000, sampled
RandomSamples == {0, 1, 30000, 59999}

\* bodies the provider puts in an error response, as word lists
ObjectBody == <<"[object", "Object]">>
HtmlUnavailable == <<"Service", "Temporarily", "Unavailable">>

-----------------------------------------------------------------------------
(* Errors *)

\* a JavaScript error object, with the fields the handlers probe
Err(name, code, status, respStatus, respData, message) ==
    [name |-> name, code |-> code, status |-> status,
     respStatus |-> respStatus, respData |-> respData, message |-> message]

NoErr == Err("none", NoCode, NoStatus, NoStatus, <<>>, <<>>)

\* axios rejects a non-2xx answer with an AxiosError carrying the response
AxiosHttpError(s, data) ==
    Err("AxiosError", IF s >= 500 THEN "ERR_BAD_RESPONSE" ELSE "ERR_BAD_REQUEST",
        NoStatus, s, data,
        <<"Request", "failed", "with", "status", "code", ToString(s)>>)

\* axios rejects a request that got no answer with the socket's error code
AxiosNetError(code, message) ==
    Err("AxiosError", code, NoStatus, NoStatus, <<>>, message)

\* what the gateway can do to a POST /message/sendText
SendFaults ==
    { AxiosHttpError(400, ObjectBody),
      AxiosHttpError(404, ObjectBody),
      AxiosHttpError(503, ObjectBody),
      AxiosHttpError(503, HtmlUnavailable),
      AxiosNetError("ECONNRESET", <<"read", "ECONNRESET">>),
      AxiosNetError("ETIMEDOUT", <<"connect", "ETIMEDOUT">>),
      AxiosNetError("ERR_NETWORK", <<"Network", "Error">>) }

\* what the gateway can do to a GET /instance/connectionState
ReadinessFaults ==
    { AxiosHttpError(404, ObjectBody),
      AxiosHttpError(401, ObjectBody),
      AxiosHttpError(500, ObjectBody),
      AxiosNetError("ECONNRESET", <<"read", "ECONNRESET">>) }

\* response.data of a 2xx answer to the readiness request
Body(hasData, hasInstance, state) ==
    [hasData |-> hasData, hasInstance |-> hasInstance, state |-> state]

NoState == ""

ReadinessBodies ==
    { Body(TRUE, TRUE, "open"),
      Body(TRUE, TRUE, "connecting"),
      Body(TRUE, TRUE, "close"),
      Body(TRUE, TRUE, NoState),
      Body(TRUE, FALSE, NoState),
      Body(FALSE, FALSE, NoState) }

\* String.prototype.toLowerCase on one word
ToLower(w) ==
    CASE w = "Network" -> "network"
      [] w = "Error" -> "error"
      [] w = "Service" -> "service"
      [] w = "Temporarily" -> "temporarily"
      [] w = "Unavailable" -> "unavailable"
      [] w = "Request" -> "request"
      [] w = "Failed" -> "failed"
      [] w = "Evolution" -> "evolution"
      [] w = "API" -> "api"
      [] w = "ECONNRESET" -> "econnreset"
      [] w = "ETIMEDOUT" -> "etimedout"
      [] w = "[object" -> "[object"
      [] w = "Object]" -> "object]"
      [] OTHER -> w

LowerCase(msg) == [i \in 1..Len(msg) |-> ToLower(msg[i])]

\* String.prototype.includes for a one-word needle
Includes(msg, w) == \E i \in 1..Len(msg) : msg[i] = w

\* String.prototype.includes for a two-word needle
Includes2(msg, w1, w2) ==
    \E i \in 1..(Len(msg) - 1) : msg[i] = w1 /\ msg[i + 1] = w2

-----------------------------------------------------------------------------
(* Order data (job.data.order) *)

\* null / undefined for a numeric field
Null == -1

\* an optional array field: absent, or present with a list (an empty array is truthy)
Absent == [has |-> FALSE, list |-> <<>>]
Present(l) == [has |-> TRUE, list |-> l]

\* JavaScript a || b on two optional arrays
OrElse(a, b) == IF a.has THEN a ELSE b

\* JavaScript x ?? 0 on a numeric field
OrZero(x) == IF x = Null THEN 0 ELSE x

RECURSIVE SumSeq(_)
SumSeq(s) == IF s = <<>> THEN 0 ELSE Head(s) + SumSeq(Tail(s))

\* the first element, whatever the others are
FirstSeq(s) == Head(s)

\* Math.max(...s) for a non-empty s
RECURSIVE MaxSeq(_)
MaxSeq(s) ==
    IF Len(s) = 1 THEN Head(s)
    ELSE LET m == MaxSeq(Tail(s)) IN IF Head(s) >= m THEN Head(s) ELSE m

\* Math.floor(s / n): the quotient without rounding
TruncDiv(s, n) == s \div n

\* Math.round(s / n) for s >= 0, n > 0: the quotient, plus one when the
\* fractional part (s % n) / n is at least one half
RoundDiv(s, n) ==
    LET quotient == s \div n
        remainder == s % n
    IN  IF 2 * remainder >= n THEN quotient + 1 ELSE quotient

Prices(l) == [i \in 1..Len(l) |-> l[i].price]

\* item.pizzaPricingType || item.pizzaConfig?.pricingType || "average"
PricingType(item) ==
    IF item.pizzaPricingType # "" THEN item.pizzaPricingType
    ELSE IF item.pizzaConfigPricingType # "" THEN item.pizzaConfigPricingType
    ELSE "average"

calculateItemPrice_W(item) ==
    LET pizzaFlavors == OrElse(item.pizzaFlavors, item.orderItemPizzaFlavors)
        prices == Prices(pizzaFlavors.list)
        type == PricingType(item)
    IN  IF pizzaFlavors.has /\ Len(pizzaFlavors.list) > 0
        THEN IF type = "sum" THEN SumSeq(prices)
             ELSE IF type = "max" THEN MaxSeq(prices)
             ELSE RoundDiv(SumSeq(prices), Len(prices))
        ELSE OrZero(item.price)

calculateItemPrice_0a(item) ==
    LET pizzaFlavors == OrElse(item.pizzaFlavors, item.orderItemPizzaFlavors)
        flavorPrices == Prices(pizzaFlavors.list)
        pricingType == PricingType(item)
    IN  IF pizzaFlavors.has /\ Len(pizzaFlavors.list) > 0
           /\ pricingType \in {"sum", "average", "max"}
        THEN IF pricingType = "sum" THEN SumSeq(flavorPrices)
             ELSE IF pricingType = "average"
                  THEN RoundDiv(SumSeq(flavorPrices), Len(flavorPrices))
             ELSE MaxSeq(flavorPrices)
        ELSE OrZero(item.price)

calculateItemPrice_0b(item) ==
    LET pizzaFlavors == OrElse(item.pizzaFlavors, item.orderItemPizzaFlavors)
        flavorPrices == Prices(pizzaFlavors.list)
        pricingType == PricingType(item)
    IN  IF pizzaFlavors.has /\ Len(pizzaFlavors.list) > 0
           /\ pricingType \in {"sum", "average", "max"}
        THEN IF pricingType = "sum" THEN SumSeq(flavorPrices)
             ELSE IF pricingType = "average"
                  THEN RoundDiv(SumSeq(flavorPrices), Len(flavorPrices))
             ELSE MaxSeq(flavorPrices)
        ELSE OrZero(item.price)

calculateItemPrice_1(item) ==
    LET pizzaFlavors == OrElse(item.pizzaFlavors, item.orderItemPizzaFlavors)
        prices == Prices(pizzaFlavors.list)
        type == PricingType(item)
    IN  IF pizzaFlavors.has /\ Len(pizzaFlavors.list) > 0
        THEN IF type = "sum" THEN SumSeq(prices)
             ELSE IF type = "max" THEN MaxSeq(prices)
             ELSE RoundDiv(SumSeq(prices), Len(prices))
        ELSE OrZero(item.price)

\* complements counted once each, whatever their quantity
RECURSIVE ComplementsTotalUnit(_)
ComplementsTotalUnit(cs) ==
    IF cs = <<>> THEN 0
    ELSE OrZero(Head(cs).price) + ComplementsTotalUnit(Tail(cs))

\* complements.reduce((sum, c) => sum + (c.price ?? 0) * c.quantity, 0)
RECURSIVE ComplementsTotal(_)
ComplementsTotal(cs) ==
    IF cs = <<>> THEN 0
    ELSE OrZero(Head(cs).price) * Head(cs).quantity + ComplementsTotal(Tail(cs))

\* the complements a revision prices: item.complements || item.orderItemComplements
PricedComplements(item) == OrElse(item.complements, item.orderItemComplements).list

RECURSIVE calculateOrderTotal_W(_)
calculateOrderTotal_W(items) ==
    IF items = <<>> THEN 0
    ELSE (calculateItemPrice_W(Head(items)) + ComplementsTotal(PricedComplements(Head(items))))
            * Head(items).quantity
         + calculateOrderTotal_W(Tail(items))

RECURSIVE calculateOrderTotal_0a(_)
calculateOrderTotal_0a(items) ==
    IF items = <<>> THEN 0
    ELSE (calculateItemPrice_0a(Head(items)) + ComplementsTotal(PricedComplements(Head(items))))
            * Head(items).quantity
         + calculateOrderTotal_0a(Tail(items))

RECURSIVE calculateOrderTotal_0b(_)
calculateOrderTotal_0b(items) ==
    IF items = <<>> THEN 0
    ELSE (calculateItemPrice_0b(Head(items)) + ComplementsTotal(PricedComplements(Head(items))))
            * Head(items).quantity
         + calculateOrderTotal_0b(Tail(items))

RECURSIVE calculateOrderTotal_1(_)
calculateOrderTotal_1(items) ==
    IF items = <<>> THEN 0
    ELSE (calculateItemPrice_1(Head(items)) + ComplementsTotal(PricedComplements(Head(items))))
            * Head(items).quantity
         + calculateOrderTotal_1(Tail(items))

-----------------------------------------------------------------------------
(* Rendering: a message is the sequence of its lines, "" is the empty sequence *)

EmptyMessage == <<>>

InProduction == "Agora vai! Seu pedido ja esta *em producao*"
InTransit == "To chegando! Seu pedido ja esta na rota de *entrega*"

Pad2(n) == IF n < 10 THEN "0" \o ToString(n) ELSE ToString(n)
Pad3(n) == IF n < 10 THEN "00" \o ToString(n)
           ELSE IF n < 100 THEN "0" \o ToString(n) ELSE ToString(n)

\* (n / 100).toLocaleString("pt-BR", {style: "currency", currency: "BRL"}), 0 <= n
Currency(n) ==
    LET units == n \div 100
        cents == n % 100
    IN  "R$ " \o (IF units >= 1000
                  THEN ToString(units \div 1000) \o "." \o Pad3(units % 1000)
                  ELSE ToString(units))
              \o "," \o Pad2(cents)

\* quantity > 1 ? `${quantity}x ` : ""
QtyPrefix(q) == IF q > 1 THEN ToString(q) \o "x " ELSE ""

RECURSIVE FlavorLines(_, _)
FlavorLines(fs, n) ==
    IF fs = <<>> THEN <<>>
    ELSE <<"1/" \o ToString(n) \o " " \o Head(fs).name>> \o FlavorLines(Tail(fs), n)

RECURSIVE ComplementLines(_)
ComplementLines(cs) ==
    IF cs = <<>> THEN <<>>
    ELSE <<QtyPrefix(Head(cs).quantity) \o Head(cs).name>> \o ComplementLines(Tail(cs))

\* the flavors block of one line (absent when there are none)
FlavorsBlock(item) ==
    LET pizzaFlavors == OrElse(item.pizzaFlavors, item.orderItemPizzaFlavors)
    IN  IF pizzaFlavors.has /\ Len(pizzaFlavors.list) > 0
        THEN <<"_Sabores_">> \o FlavorLines(pizzaFlavors.list, Len(pizzaFlavors.list))
        ELSE <<>>

\* the complements block of one line: only item.orderItemComplements is rendered
ComplementsBlock(item) ==
    IF item.orderItemComplements.has /\ Len(item.orderItemComplements.list) > 0
    THEN <<"_Complementos_">> \o ComplementLines(item.orderItemComplements.list)
    ELSE <<>>

ItemNotes(item) == IF item.notes # "" THEN <<"*OBS:* " \o item.notes>> ELSE <<>>

RECURSIVE ItemLines_W(_)
ItemLines_W(items) ==
    IF items = <<>> THEN <<>>
    ELSE <<"item " \o QtyPrefix(Head(items).quantity) \o Head(items).name>>
         \o ItemNotes(Head(items)) \o ItemLines_W(Tail(items))

\* worker.ts shows neither flavors nor complements; the other revisions show both
RECURSIVE ItemLines_Full(_)
ItemLines_Full(items) ==
    IF items = <<>> THEN <<>>
    ELSE <<"item " \o QtyPrefix(Head(items).quantity) \o Head(items).name>>
         \o FlavorsBlock(Head(items)) \o ComplementsBlock(Head(items))
         \o ItemNotes(Head(items)) \o ItemLines_Full(Tail(items))

OrderNotes(order) == IF order.notes # "" THEN <<"*OBS:* " \o order.notes>> ELSE <<>>

PaymentLine(order) ==
    IF order.paymentMethod = "cash"
    THEN IF order.change # Null /\ order.change # 0
         THEN "pay *Dinheiro (troco para " \o Currency(order.change) \o ")*"
         ELSE "pay *Dinheiro (nao precisa de troco)*"
    ELSE IF order.paymentMethod = "pix" THEN "pay *Pix*"
    ELSE "pay *Cartao*"

DeliveryLine(order) ==
    IF order.deliveryMethodCode = "delivery" THEN "dlv *Delivery*"
    ELSE IF order.deliveryMethodCode = "pickup" THEN "dlv *Retirada no local*"
    ELSE "dlv *Consumo no local*"

Header(order) == <<"Pedido *n " \o ToString(order.code) \o "*", "*Itens:*">>

\* a renderer whose last branch falls back to the in-transit text
StatusMessageFallback(order) ==
    IF order.status = "in_preparation" THEN <<InProduction>> ELSE <<InTransit>>

\* a renderer with the two status texts exchanged
StatusMessageSwapped(order) ==
    IF order.status = "in_preparation" THEN <<InTransit>>
    ELSE IF order.status = "completed" THEN <<InProduction>>
    ELSE EmptyMessage

StatusMessage(order) ==
    IF order.status = "in_preparation" THEN <<InProduction>>
    ELSE IF order.status = "completed" THEN <<InTransit>>
    ELSE EmptyMessage

formatOrderMessage_W(order, type) ==
    IF type = "ORDER_STATUS_UPDATED" THEN StatusMessage(order)
    ELSE Header(order) \o ItemLines_W(order.items)
         \o <<"Total *" \o Currency(calculateOrderTotal_W(order.items)) \o "*",
              "Obrigado pela preferencia!">>

formatOrderMessage_0a(order, type) ==
    LET totalFormatted == Currency(calculateOrderTotal_0a(order.items))
    IN  IF type = "ORDER_CREATED"
        THEN Header(order) \o ItemLines_Full(order.items) \o OrderNotes(order)
             \o <<PaymentLine(order), DeliveryLine(order),
                  "Total *" \o totalFormatted \o "*",
                  "Obrigado pela preferencia, se precisar de algo e so chamar!">>
        ELSE IF type = "ORDER_STATUS_UPDATED" THEN StatusMessage(order)
        ELSE EmptyMessage

formatOrderMessage_0b(order, type) ==
    LET totalFormatted == Currency(calculateOrderTotal_0b(order.items))
    IN  IF type = "ORDER_CREATED"
        THEN Header(order) \o ItemLines_Full(order.items) \o OrderNotes(order)
             \o <<PaymentLine(order), DeliveryLine(order),
                  "Total *" \o totalFormatted \o "*",
                  "Obrigado pela preferencia, se precisar de algo e so chamar!">>
        ELSE IF type = "ORDER_STATUS_UPDATED" THEN StatusMessage(order)
        ELSE EmptyMessage

formatOrderMessage_1(order, type) ==
    LET totalFormatted == Currency(calculateOrderTotal_1(order.items))
    IN  IF type = "ORDER_STATUS_UPDATED" THEN StatusMessage(order)
        ELSE Header(order) \o ItemLines_Full(order.items) \o OrderNotes(order)
             \o <<"Total *" \o totalFormatted \o "*", "Obrigado pela preferencia!">>

\* order.items.reduce / for (const item of order.items) on an order without
\* items throws a TypeError. worker.ts returns the status text before reading
\* order.items; the other revisions compute the total first, whatever the type.
formatThrows_W(order, type) == type # "ORDER_STATUS_UPDATED" /\ ~order.hasItems

formatThrows_0a(order, type) == ~order.hasItems

formatThrows_0b(order, type) == ~order.hasItems

formatThrows_1(order, type) == ~order.hasItems

-----------------------------------------------------------------------------
(* Gateway client and failure classifier *)

PlainError(status, message) == Err("Error", NoCode, status, NoStatus, <<>>, message)

\* worker.ts: the axios rejection reaches the handler as it is
sendMessage_W(e) == e

\* part_000 (first revision): an answered failure is replaced by a new Error
\* that keeps the status only inside its message
sendMessage_0a(e) ==
    IF e.respStatus # NoStatus
    THEN PlainError(NoStatus,
                    <<"Evolution", "API", "error:", ToString(e.respStatus), "-">> \o e.respData)
    ELSE e

\* part_000 (second revision): every failure is replaced by a new Error with
\* err.status = error.response?.status and the old message appended
sendMessage_0b(e) ==
    PlainError(e.respStatus, <<"Failed", "to", "send", "message:">> \o e.message)

\* part_001: every failure is replaced by a new Error with err.status
sendMessage_1(e) ==
    PlainError(e.respStatus, <<"Failed", "to", "send", "message">>)

isTemporaryProviderError_W(err) ==
    \/ err.code \in {"ECONNRESET", "ETIMEDOUT", "EPIPE"}
    \/ err.respStatus >= 500

isTemporaryProviderError_0a(error) ==
    \/ error.name = "FetchError"
    \/ error.code = "ECONNRESET"
    \/ error.code = "ETIMEDOUT"
    \/ (error.status # NoStatus /\ error.status >= 500)
    \/ LET msg == LowerCase(error.message)
       IN  \/ Includes(msg, "timeout")
           \/ Includes2(msg, "temporarily", "unavailable")
           \/ Includes(msg, "network")

isTemporaryProviderError_0b(error) ==
    LET status == IF error.status # NoStatus THEN error.status ELSE error.respStatus
    IN  \/ error.name = "FetchError"
        \/ error.code = "ECONNRESET"
        \/ error.code = "ETIMEDOUT"
        \/ (status # NoStatus /\ status >= 500)
        \/ LET msg == LowerCase(error.message)
           IN  \/ Includes(msg, "timeout")
               \/ Includes2(msg, "temporarily", "unavailable")
               \/ Includes(msg, "network")

isTemporaryProviderError_1(error) ==
    LET status == IF error.status # NoStatus THEN error.status ELSE error.respStatus
    IN  \/ (status # NoStatus /\ status >= 500)
        \/ error.code \in {"ECONNRESET", "ETIMEDOUT"}
        \/ LET msg == LowerCase(error.message)
           IN  \/ Includes(msg, "timeout")
               \/ Includes(msg, "network")
               \/ Includes(msg, "temporarily")

-----------------------------------------------------------------------------
(* State *)

NoBody == Body(FALSE, FALSE, NoState)

\* what an attempt has done: the job it runs, requests made, the gateway's answers, the texts
\* sent, the delays scheduled with job.moveToDelayed, job.moveToFailed called,
\* the error thrown to the queue runtime
NewAttempt ==
    [job |-> NoJob, message |-> EmptyMessage,
     nChecks |-> 0, ready |-> "unchecked", body |-> NoBody, checkErr |-> NoErr,
     nSends |-> 0, sentText |-> <<>>, sendRes |-> "none", sendErr |-> NoErr,
     delays |-> <<>>, movedFailed |-> FALSE, err |-> NoErr]

Item(quantity, name, price, flavors, pricingType, complements) ==
    [quantity |-> quantity, name |-> name, price |-> price, notes |-> "",
     pizzaFlavors |-> Absent, orderItemPizzaFlavors |-> flavors,
     pizzaPricingType |-> pricingType, pizzaConfigPricingType |-> "",
     complements |-> Absent, orderItemComplements |-> complements]

Order(status) ==
    [code |-> 42, customerPhone |-> "5511999990000", notes |-> "",
     paymentMethod |-> "cash", change |-> 500, status |-> status,
     deliveryMethodCode |-> "delivery", hasItems |-> TRUE,
     items |-> << Item(1, "Pizza", 0,
                       Present(<< [name |-> "Calabresa", price |-> 1000],
                                  [name |-> "Queijo", price |-> 1400] >>),
                       "average",
                       Present(<< [quantity |-> 2, name |-> "Borda", price |-> 300] >>)) >>]

JobData(type, status, sequence) ==
    [type |-> type, order |-> Order(status), sequence |-> sequence,
     evolutionInstance |-> "shop1"]

\* no function is being applied on its own
NoCalc == [kind |-> "none", stage |-> "none"]

NewJob == [state |-> "wait", attemptsMade |-> 0, delays |-> 0, delay |-> 0]

\* the producer enqueued ORDER_CREATED (sequence 1) and then
\* ORDER_STATUS_UPDATED (sequence 2) of the same order
Init ==
    /\ rev \in Revisions
    /\ attempts \in 1..MaxAttempts
    /\ \E s \in Statuses :
          jobData = (1 :> JobData("ORDER_CREATED", "pending", 1)
                     @@ 2 :> JobData("ORDER_STATUS_UPDATED", s, 2))
    /\ jobs = [j \in JobIds |-> NewJob]
    /\ wait = <<1, 2>>
    /\ active = NoJob
    /\ pc = "idle"
    /\ att = NewAttempt
    /\ sentLog = <<>>
    /\ workerError = FALSE
    /\ proc = "running"
    /\ calc = NoCalc

\* what neither the queue runtime nor a step of the handler changes
Static == <<rev, attempts, jobData, proc, calc>>

-----------------------------------------------------------------------------
(* Queue runtime: the Worker registered with concurrency 1 *)

\* the worker takes the head of the wait list when it has no job in hand
\* (worker.close() stops the fetching: proc = "closing")
Fetch ==
    /\ proc = "running"
    /\ pc = "idle"
    /\ active = NoJob
    /\ wait # <<>>
    /\ active' = Head(wait)
    /\ wait' = Tail(wait)
    /\ jobs' = [jobs EXCEPT ![Head(wait)].state = "active"]
    /\ pc' = "start"
    /\ att' = [NewAttempt EXCEPT !.job = Head(wait)]
    /\ UNCHANGED <<Static, sentLog, workerError>>

\* the handler's promise resolved: the job is moved to completed, unless the
\* handler itself already moved it out of the active list
OnReturned ==
    /\ pc = "returned"
    /\ IF jobs[active].state = "active"
       THEN /\ jobs' = [jobs EXCEPT ![active].state = "completed"]
            /\ UNCHANGED workerError
       ELSE /\ workerError' = TRUE
            /\ UNCHANGED jobs
    /\ active' = NoJob
    /\ pc' = "idle"
    /\ UNCHANGED <<Static, wait, att, sentLog>>

\* the handler's promise rejected: the attempt is counted, and the job goes back
\* to the wait list while attempts remain, to failed otherwise; only an
\* UnrecoverableError skips the remaining attempts
OnThrown ==
    /\ pc = "thrown"
    /\ LET made == jobs[active].attemptsMade + 1
       IN  IF made < attempts /\ att.err.name # "UnrecoverableError"
           THEN /\ jobs' = [jobs EXCEPT ![active].attemptsMade = made,
                                        ![active].state = "wait"]
                /\ wait' = Append(wait, active)
           ELSE /\ jobs' = [jobs EXCEPT ![active].attemptsMade = made,
                                        ![active].state = "failed"]
                /\ UNCHANGED wait
    /\ active' = NoJob
    /\ pc' = "idle"
    /\ UNCHANGED <<Static, att, sentLog, workerError>>

\* the delay of a delayed job has passed: it joins the wait list
PromoteDelayed(j) ==
    /\ jobs[j].state = "delayed"
    /\ jobs' = [jobs EXCEPT ![j].state = "wait"]
    /\ wait' = Append(wait, j)
    /\ UNCHANGED <<Static, active, pc, att, sentLog, workerError>>

-----------------------------------------------------------------------------
(* processOrderMessage, worker.ts *)

\* reading a property of undefined
TypeError == Err("TypeError", NoCode, NoStatus, NoStatus, <<>>,
                 <<"Cannot", "read", "properties", "of", "undefined">>)

\* how a step of the handler ends
Continue(a, next) ==
    /\ pc' = next
    /\ att' = a
    /\ UNCHANGED <<jobs, sentLog>>

Return(a) ==
    /\ pc' = "returned"
    /\ att' = a
    /\ UNCHANGED <<jobs, sentLog>>

\* an error that is dropped: the handler resolves instead of rejecting
Swallow(a, e) ==
    /\ pc' = "returned"
    /\ att' = a
    /\ UNCHANGED <<jobs, sentLog>>

Throw(a, e) ==
    /\ pc' = "thrown"
    /\ att' = [a EXCEPT !.err = e]
    /\ UNCHANGED <<jobs, sentLog>>

\* the gateway accepted the POST: sendMessage resolves, the handler logs and returns
SendAccepted(a) ==
    /\ pc' = "returned"
    /\ att' = [a EXCEPT !.sendRes = "ok"]
    /\ sentLog' = Append(sentLog, [job |-> active, text |-> a.message])
    /\ UNCHANGED jobs

\* a send that is repeated inside the gateway call
PostedTwice(a) == [a EXCEPT !.nSends = @ + 2, !.sentText = Append(Append(@, a.message), a.message)]

\* one POST /message/sendText with the rendered text
Posted(a) == [a EXCEPT !.nSends = @ + 1, !.sentText = Append(@, a.message)]

Begin_W ==
    /\ rev = "worker"
    /\ pc = "start"
    /\ IF formatThrows_W(jobData[active].order, jobData[active].type)
       THEN Throw(att, TypeError)
       ELSE Continue([att EXCEPT !.message =
                         formatOrderMessage_W(jobData[active].order,
                                               jobData[active].type)],
                     "send")
    /\ UNCHANGED <<Static, wait, active, workerError>>

Send_W ==
    /\ rev = "worker"
    /\ pc = "send"
    /\ \/ SendAccepted(Posted(att))
       \/ \E e \in SendFaults :
            LET a == [Posted(att) EXCEPT !.sendRes = "fault", !.sendErr = e]
                err == sendMessage_W(e)
            IN  IF isTemporaryProviderError_W(err)
                THEN Throw(a, err)
                ELSE Throw(a, PlainError(NoStatus,
                                <<"Falha", "permanente", "ao", "enviar", "mensagem:">>
                                    \o err.message))
    /\ UNCHANGED <<Static, wait, active, workerError>>

-----------------------------------------------------------------------------
(* processOrderMessage, part_000 lines 218-271 *)

\* one GET /instance/connectionState answered with body b
Checked(a, b) == [a EXCEPT !.nChecks = @ + 1, !.ready = "ok", !.body = b]

\* one GET /instance/connectionState that failed
CheckFailed(a, e) == [a EXCEPT !.nChecks = @ + 1, !.ready = "fault", !.checkErr = e]

\* data?.instance.state reads .state of undefined when data has no instance
ReadyTestThrows_0a(b) == b.hasData /\ ~b.hasInstance

\* !data?.instance.state || data.instance.state !== "open"
NotReady_0a(b) == ~b.hasData \/ b.state = NoState \/ b.state # "open"

\* 60000 + Math.random() * 60000, r being Math.random() * 60000
Delay_0a(r) == 60000 + r

Begin_0a ==
    /\ rev = "part0a"
    /\ pc = "start"
    /\ IF formatThrows_0a(jobData[active].order, jobData[active].type)
       THEN Throw(att, TypeError)
       ELSE Continue([att EXCEPT !.message =
                         formatOrderMessage_0a(jobData[active].order,
                                               jobData[active].type)],
                     "check")
    /\ UNCHANGED <<Static, wait, active, workerError>>

Readiness_0a ==
    /\ rev = "part0a"
    /\ pc = "check"
    /\ \/ \E e \in ReadinessFaults :
            IF e.respStatus # NoStatus
            THEN Throw(CheckFailed(att, e),
                       PlainError(e.respStatus,
                                  <<"Evolution", "API", "error:", ToString(e.respStatus), "-">>
                                      \o e.respData))
            ELSE Throw(CheckFailed(att, e), e)
       \/ \E b \in ReadinessBodies :
            IF ReadyTestThrows_0a(b) THEN Throw(Checked(att, b), TypeError)
            ELSE IF NotReady_0a(b)
            THEN \* log, updateProgress, moveToDelayed, return
                 /\ jobs[active].delays < MaxDelays
                 /\ \E r \in RandomSamples :
                      /\ jobs' = [jobs EXCEPT ![active].state = "delayed",
                                              ![active].delay = Delay_0a(r),
                                              ![active].delays = @ + 1]
                      /\ att' = [Checked(att, b) EXCEPT !.delays = Append(@, Delay_0a(r))]
                 /\ pc' = "returned"
                 /\ UNCHANGED sentLog
            ELSE Continue(Checked(att, b), "send")
    /\ UNCHANGED <<Static, wait, active, workerError>>

Send_0a ==
    /\ rev = "part0a"
    /\ pc = "send"
    /\ \/ SendAccepted(Posted(att))
       \/ \E e \in SendFaults :
            LET a == [Posted(att) EXCEPT !.sendRes = "fault", !.sendErr = e]
                err == sendMessage_0a(e)
            IN  IF isTemporaryProviderError_0a(err)
                THEN Throw(a, err)
                ELSE \* log, job.moveToFailed(err, ...), fall off the end
                     /\ jobs' = [jobs EXCEPT ![active].state = "failed"]
                     /\ att' = [a EXCEPT !.movedFailed = TRUE]
                     /\ pc' = "returned"
                     /\ UNCHANGED sentLog
    /\ UNCHANGED <<Static, wait, active, workerError>>

-----------------------------------------------------------------------------
(* processOrderMessage, part_000 lines 533-592 *)

ReadyTestThrows_0b(b) == b.hasData /\ ~b.hasInstance

NotReady_0b(b) == ~b.hasData \/ b.state = NoState \/ b.state # "open"

NotReadyError == PlainError(503, <<"Evolution", "instance", "not", "ready">>)

Begin_0b ==
    /\ rev = "part0b"
    /\ pc = "start"
    /\ IF formatThrows_0b(jobData[active].order, jobData[active].type)
       THEN Throw(att, TypeError)
       ELSE Continue([att EXCEPT !.message =
                         formatOrderMessage_0b(jobData[active].order,
                                               jobData[active].type)],
                     "check")
    /\ UNCHANGED <<Static, wait, active, workerError>>

Readiness_0b ==
    /\ rev = "part0b"
    /\ pc = "check"
    /\ \/ \E e \in ReadinessFaults :
            IF e.respStatus = 404
            THEN Return(CheckFailed(att, e))
            ELSE Throw(CheckFailed(att, e), e)
       \/ \E b \in ReadinessBodies :
            IF ReadyTestThrows_0b(b) THEN Throw(Checked(att, b), TypeError)
            ELSE IF NotReady_0b(b) THEN Throw(Checked(att, b), NotReadyError)
            ELSE Continue(Checked(att, b), "send")
    /\ UNCHANGED <<Static, wait, active, workerError>>

\* the catch block reads err.response?.status, which the Error made by
\* sendMessage does not have
Send_0b ==
    /\ rev = "part0b"
    /\ pc = "send"
    /\ \/ SendAccepted(Posted(att))
       \/ \E e \in SendFaults :
            LET a == [Posted(att) EXCEPT !.sendRes = "fault", !.sendErr = e]
                err == sendMessage_0b(e)
                status == err.respStatus
            IN  IF status = 404 THEN Return(a)
                ELSE IF isTemporaryProviderError_0b(err) THEN Throw(a, err)
                ELSE Throw(a, err)
    /\ UNCHANGED <<Static, wait, active, workerError>>

-----------------------------------------------------------------------------
(* processOrderMessage, part_001 lines 168-208 *)

\* instanceState?.instance?.state !== "open"
NotReady_1(b) == b.state # "open"

NotFoundError == PlainError(404, <<"Evolution", "instance", "not", "found">>)

Begin_1 ==
    /\ rev = "part1"
    /\ pc = "start"
    /\ IF formatThrows_1(jobData[active].order, jobData[active].type)
       THEN Throw(att, TypeError)
       ELSE Continue([att EXCEPT !.message =
                         formatOrderMessage_1(jobData[active].order,
                                               jobData[active].type)],
                     "check")
    /\ UNCHANGED <<Static, wait, active, workerError>>

Readiness_1 ==
    /\ rev = "part1"
    /\ pc = "check"
    /\ \/ \E e \in ReadinessFaults :
            IF e.respStatus = 404
            THEN Throw(CheckFailed(att, e), NotFoundError)
            ELSE Throw(CheckFailed(att, e), e)
       \/ \E b \in ReadinessBodies :
            IF NotReady_1(b) THEN Throw(Checked(att, b), NotReadyError)
            ELSE Continue(Checked(att, b), "send")
    /\ UNCHANGED <<Static, wait, active, workerError>>

Send_1 ==
    /\ rev = "part1"
    /\ pc = "send"
    /\ \/ SendAccepted(Posted(att))
       \/ \E e \in SendFaults :
            LET a == [Posted(att) EXCEPT !.sendRes = "fault", !.sendErr = e]
                err == sendMessage_1(e)
            IN  IF err.status = 404 THEN Throw(a, err)
                ELSE IF isTemporaryProviderError_1(err) THEN Throw(a, err)
                ELSE Throw(a, err)
    /\ UNCHANGED <<Static, wait, active, workerError>>

-----------------------------------------------------------------------------

Next ==
    \/ Fetch
    \/ OnReturned
    \/ OnThrown
    \/ \E j \in JobIds : PromoteDelayed(j)
    \/ Begin_W
    \/ Send_W
    \/ Begin_0a
    \/ Readiness_0a
    \/ Send_0a
    \/ Begin_0b
    \/ Readiness_0b
    \/ Send_0b
    \/ Begin_1
    \/ Readiness_1
    \/ Send_1

Spec == Init /\ [][Next]_vars

TypeOK ==
    /\ rev \in Revisions
    /\ attempts \in 1..MaxAttempts
    /\ active \in JobIds \cup {NoJob}
    /\ pc \in {"idle", "start", "check", "send", "returned", "thrown"}
    /\ \A j \in JobIds :
          jobs[j].state \in {"wait", "active", "delayed", "completed", "failed"}
    /\ (pc = "idle") <=> (active = NoJob)

-----------------------------------------------------------------------------
(* Properties *)

\* the attempt in att is over: the handler returned or threw, or the runtime
\* has already settled it
AttemptOver == att.job # NoJob /\ pc \in {"returned", "thrown", "idle"}

\* the handler has just ended the attempt and the runtime has not settled it yet
HandlerEnded == pc \in {"returned", "thrown"}

ReadinessOpen == att.ready = "ok" /\ att.body.state = "open"

\* the readiness answer carried a state, and it is not "open"
ReadinessStateNotOpen ==
    att.ready = "ok" /\ att.body.hasInstance /\ att.body.state \notin {"open", NoState}

\* the error sendMessage raises for the provider fault e, in the deployed revision
RaisedBySend(e) ==
    CASE rev = "worker" -> sendMessage_W(e)
      [] rev = "part0a" -> sendMessage_0a(e)
      [] rev = "part0b" -> sendMessage_0b(e)
      [] rev = "part1" -> sendMessage_1(e)

ClassifiedTemporary(err) ==
    CASE rev = "worker" -> isTemporaryProviderError_W(err)
      [] rev = "part0a" -> isTemporaryProviderError_0a(err)
      [] rev = "part0b" -> isTemporaryProviderError_0b(err)
      [] rev = "part1" -> isTemporaryProviderError_1(err)

\* the provider fault is transient: HTTP status >= 500, connection reset, timeout
TransientFault(e) == e.respStatus >= 500 \/ e.code \in {"ECONNRESET", "ETIMEDOUT"}

\* the provider fault is terminal: an answered 4xx other than 404
TerminalFault(e) == e.respStatus >= 400 /\ e.respStatus < 500 /\ e.respStatus # 404

\* C1: when the readiness check returns a state other than "open", the attempt
\* sends nothing, schedules exactly one delayed re-run with 60000 <= d < 120000,
\* throws nothing to the queue runtime and the job is not marked failed.
C1_NotOpenDelaysOnce ==
    (HandlerEnded /\ ReadinessStateNotOpen) =>
        /\ att.nSends = 0
        /\ Len(att.delays) = 1
        /\ att.delays[1] >= 60000
        /\ att.delays[1] < 120000
        /\ pc # "thrown"
        /\ jobs[att.job].state # "failed"

\* C2: a send call happens only after a readiness check of the same attempt
\* answered "open".
C2_SendOnlyAfterOpen ==
    att.nSends > 0 => (att.nChecks >= 1 /\ ReadinessOpen)

\* C3: when the send fails with a transient fault, the attempt ends by throwing
\* to the queue runtime, and the job is not completed or failed by the handler.
C3_TransientRethrown ==
    (HandlerEnded /\ att.sendRes = "fault" /\ TransientFault(att.sendErr)) =>
        /\ pc = "thrown"
        /\ ~att.movedFailed
        /\ jobs[att.job].state = "active"

\* C4: when the send fails with a terminal error, the job ends permanently
\* failed and is never attempted again.
C4_TerminalFailsForGood ==
    (pc = "idle" /\ att.job # NoJob /\ att.sendRes = "fault" /\ TerminalFault(att.sendErr)) =>
        jobs[att.job].state = "failed"

\* C5: when the readiness check answers 404, the handler returns normally
\* without sending and without throwing.
C5_ReadinessNotFoundReturns ==
    (HandlerEnded /\ att.ready = "fault" /\ att.checkErr.respStatus = 404) =>
        (pc = "returned" /\ att.nSends = 0)

\* C6: when the send fails with provider HTTP 404, the attempt ends without
\* propagating an error to the queue runtime.
C6_SendNotFoundNotPropagated ==
    (HandlerEnded /\ att.sendRes = "fault" /\ att.sendErr.respStatus = 404) =>
        pc # "thrown"

\* C7: for the error as sendMessage raises it, status 503 is classified
\* transient, status 404 not transient, status 400 not transient.
C7_Classification ==
    att.sendRes = "fault" =>
        LET err == RaisedBySend(att.sendErr)
        IN  /\ att.sendErr.respStatus = 503 => ClassifiedTemporary(err)
            /\ att.sendErr.respStatus = 404 => ~ClassifiedTemporary(err)
            /\ (att.sendErr.respStatus = 400 /\ att.sendErr.respData = ObjectBody)
                   => ~ClassifiedTemporary(err)

\* C8: with ORDER_CREATED (job 1) enqueued before ORDER_STATUS_UPDATED (job 2),
\* the created message is never sent after the status-updated message.
C8_CreatedNeverAfterUpdated ==
    \A i, k \in 1..Len(sentLog) :
        (i < k) => ~(sentLog[i].job = 2 /\ sentLog[k].job = 1)

UnmappedStatusJob ==
    /\ att.job # NoJob
    /\ jobData[att.job].type = "ORDER_STATUS_UPDATED"
    /\ jobData[att.job].order.status \notin {"in_preparation", "completed"}

\* C10: an ORDER_STATUS_UPDATED job whose status is neither "in_preparation" nor
\* "completed" renders the empty string, and once the gateway is ready the send
\* call is made with that empty text: the attempt reaches the send step and does
\* not end without exactly one send of the empty text.
C10_EmptyTextStillSent ==
    UnmappedStatusJob =>
        /\ pc # "start" => att.message = EmptyMessage
        /\ (ReadinessOpen \/ rev = "worker") /\ pc # "start" =>
              \/ pc = "send" /\ att.nSends = 0
              \/ AttemptOver /\ att.nSends = 1 /\ att.sentText = <<EmptyMessage>>

C10_Witness ==
    /\ UnmappedStatusJob
    /\ ReadinessOpen
    /\ att.sendRes = "ok"
    /\ att.sentText = <<EmptyMessage>>
    /\ \E i \in 1..Len(sentLog) : sentLog[i] = [job |-> att.job, text |-> EmptyMessage]
    /\ jobs[att.job].state = "completed"

-----------------------------------------------------------------------------
(* A gateway that never answers *)

\* axios.get is called without a timeout option: when the gateway never answers,
\* the promise the handler awaits never settles
ReadinessHangs ==
    /\ rev # "worker"
    /\ pc = "check"
    /\ pc' = "hung"
    /\ att' = [att EXCEPT !.nChecks = @ + 1]
    /\ UNCHANGED <<Static, jobs, wait, active, sentLog, workerError>>

\* axios.post is called without a timeout option
SendHangs ==
    /\ pc = "send"
    /\ pc' = "hung"
    /\ att' = Posted(att)
    /\ UNCHANGED <<Static, jobs, wait, active, sentLog, workerError>>

NextHung ==
    \/ Next
    \/ ReadinessHangs
    \/ SendHangs

SpecHung == Init /\ [][NextHung]_vars

\* a step of the attempt in hand: of the handler, or the runtime settling it
AttemptStep ==
    \/ OnReturned
    \/ OnThrown
    \/ Begin_W
    \/ Send_W
    \/ Begin_0a
    \/ Readiness_0a
    \/ Send_0a
    \/ Begin_0b
    \/ Readiness_0b
    \/ Send_0b
    \/ Begin_1
    \/ Readiness_1
    \/ Send_1

\* C11: every attempt terminates even when the gateway never answers: as long
\* as the worker holds a job, the attempt can take a step towards its end.
C11_AttemptCanEnd ==
    active # NoJob => ENABLED AttemptStep

\* C20: a send that fails with ECONNRESET or ETIMEDOUT and no HTTP response is
\* classified transient on the error object that sendMessage throws.
C20_ConnectionFaultTransient ==
    (att.sendRes = "fault" /\ att.sendErr.respStatus = NoStatus
        /\ att.sendErr.code \in {"ECONNRESET", "ETIMEDOUT"}) =>
            ClassifiedTemporary(RaisedBySend(att.sendErr))

-----------------------------------------------------------------------------
(* Process signals *)

\* worker.ts: shutdown() awaits messageWorker.close(), which stops the fetching
\* and resolves once the job in hand has been settled
Signal_W ==
    /\ rev = "worker"
    /\ proc = "running"
    /\ proc' = "closing"
    /\ UNCHANGED <<rev, attempts, jobData, calc, jobs, wait, active, pc, att, sentLog,
                   workerError>>

\* part_000 lines 288-296: the SIGTERM / SIGINT handlers await messageWorker.close()
Signal_0a ==
    /\ rev = "part0a"
    /\ proc = "running"
    /\ proc' = "closing"
    /\ UNCHANGED <<rev, attempts, jobData, calc, jobs, wait, active, pc, att, sentLog,
                   workerError>>

\* part_000 lines 614-621: shutdown() awaits messageWorker.close()
Signal_0b ==
    /\ rev = "part0b"
    /\ proc = "running"
    /\ proc' = "closing"
    /\ UNCHANGED <<rev, attempts, jobData, calc, jobs, wait, active, pc, att, sentLog,
                   workerError>>

\* part_001 registers no handler for SIGINT / SIGTERM: the signal ends the
\* process at once, whatever the handler is doing
Signal_1 ==
    /\ rev = "part1"
    /\ proc = "running"
    /\ proc' = "exited"
    /\ pc' = "dead"
    /\ UNCHANGED <<rev, attempts, jobData, calc, jobs, wait, active, att, sentLog,
                   workerError>>

\* close() has resolved (no job in hand): process.exit(0)
Exit ==
    /\ proc = "closing"
    /\ pc = "idle"
    /\ proc' = "exited"
    /\ pc' = "dead"
    /\ UNCHANGED <<rev, attempts, jobData, calc, jobs, wait, active, att, sentLog,
                   workerError>>

NextShutdown ==
    \/ Next
    \/ Signal_W
    \/ Signal_0a
    \/ Signal_0b
    \/ Signal_1
    \/ Exit

SpecShutdown == Init /\ [][NextShutdown]_vars

\* C19: on SIGINT / SIGTERM the process exits only after the job in hand has
\* finished or failed on its own: at exit no job is left in the active list,
\* cut off in the middle of its attempt.
C19_ExitOnlyWhenDrained ==
    proc = "exited" => \A j \in JobIds : jobs[j].state # "active"

-----------------------------------------------------------------------------
(* The pricing and rendering functions applied on their own *)

MaxFlavors == 3
MaxLines == 2
MaxComplements == 2

\* all sequences over S of length 0..n
SeqsUpTo(S, n) == UNION {[1..k -> S] : k \in 0..n}

Flavor(p) == [name |-> "Sabor", price |-> p]
Complement(q, p) == [quantity |-> q, name |-> "Borda", price |-> p]

\* flavor prices in minor units; 500 and 701 average to 600.5
FlavorPrices == {0, 1, 500, 700, 701}
FlavorLists == SeqsUpTo({Flavor(p) : p \in FlavorPrices}, MaxFlavors)

\* item.pizzaPricingType: absent, the three strategies, and another string
PricingTypes == {"", "sum", "average", "max", "min"}

\* item.price: absent, zero, a price
BasePrices == {Null, 0, 900}

\* lines in the backend shape (orderItemPizzaFlavors, pizzaPricingType) and in
\* the frontend shape (pizzaFlavors, pizzaConfig.pricingType)
ItemInputs ==
    {Item(1, "Pizza", p, Present(l), t, Absent) :
        p \in BasePrices, l \in FlavorLists, t \in PricingTypes}
    \cup {Item(1, "Pizza", p, Absent, t, Absent) : p \in BasePrices, t \in PricingTypes}
    \cup {[Item(1, "Pizza", 900, Absent, "", Absent)
              EXCEPT !.pizzaFlavors = Present(l), !.pizzaConfigPricingType = t] :
            l \in FlavorLists, t \in PricingTypes}

ComplementSamples == {Complement(2, 300), Complement(1, Null), Complement(3, 50)}
ComplementLists == SeqsUpTo(ComplementSamples, MaxComplements)

LinePool ==
    {Item(1, "Suco", 700, Absent, "", Absent),
     Item(2, "Pizza", 0, Present(<<Flavor(1000), Flavor(1400)>>), "average",
          Present(<<Complement(2, 300)>>)),
     Item(3, "Agua", Null, Absent, "", Present(<<>>)),
     [Item(2, "Esfiha", 450, Absent, "", Absent)
         EXCEPT !.complements = Present(<<Complement(1, Null), Complement(3, 50)>>)]}

\* one line with every complement list, in either field, or with none
ComplementedLines ==
    {Item(2, "Pizza", 900, Absent, "", Present(cs)) : cs \in ComplementLists}
    \cup {[Item(2, "Pizza", 900, Absent, "", Absent) EXCEPT !.complements = Present(cs)] :
            cs \in ComplementLists}
    \cup {Item(2, "Pizza", 900, Absent, "", Absent)}

OrderOf(items) == [Order("pending") EXCEPT !.items = items]

OrderInputs ==
    {OrderOf(ls) : ls \in SeqsUpTo(LinePool, MaxLines)}
    \cup {OrderOf(<<l>>) : l \in ComplementedLines}

PaymentMethods == {"cash", "pix", "card", "voucher"}
Changes == {Null, 0, 500}
\* order.deliveryMethodCode, "" standing for null / undefined
DeliveryCodes == {"delivery", "pickup", "", "drone"}
EventTypes == {"ORDER_CREATED", "ORDER_STATUS_UPDATED"}
OrderNotesSamples == {"", "sem cebola"}
RenderedLines ==
    {<<>>,
     <<Item(1, "Suco", 700, Absent, "", Absent)>>,
     <<Item(2, "Pizza", 0, Present(<<Flavor(1000), Flavor(1400)>>), "average",
            Present(<<Complement(2, 300)>>)),
       Item(1, "Suco", 700, Absent, "", Absent)>>,
     <<[Item(2, "Esfiha", 450, Absent, "", Absent)
           EXCEPT !.complements = Present(<<Complement(3, 50)>>)]>>}

RenderInputs ==
    {[Order(s) EXCEPT !.paymentMethod = m, !.change = c, !.deliveryMethodCode = d,
                      !.notes = n, !.items = ls] :
        s \in Statuses, m \in PaymentMethods, c \in Changes, d \in DeliveryCodes,
        n \in OrderNotesSamples, ls \in RenderedLines}

\* the function of the deployed revision
calculateItemPrice(item) ==
    CASE rev = "worker" -> calculateItemPrice_W(item)
      [] rev = "part0a" -> calculateItemPrice_0a(item)
      [] rev = "part0b" -> calculateItemPrice_0b(item)
      [] rev = "part1" -> calculateItemPrice_1(item)

calculateOrderTotal(items) ==
    CASE rev = "worker" -> calculateOrderTotal_W(items)
      [] rev = "part0a" -> calculateOrderTotal_0a(items)
      [] rev = "part0b" -> calculateOrderTotal_0b(items)
      [] rev = "part1" -> calculateOrderTotal_1(items)

formatOrderMessage(order, type) ==
    CASE rev = "worker" -> formatOrderMessage_W(order, type)
      [] rev = "part0a" -> formatOrderMessage_0a(order, type)
      [] rev = "part0b" -> formatOrderMessage_0b(order, type)
      [] rev = "part1" -> formatOrderMessage_1(order, type)

\* an application: the function (kind), its arguments, and its result once done
Application(kind, item, order, type) ==
    [kind |-> kind, stage |-> "input", item |-> item, order |-> order, type |-> type,
     price |-> 0, total |-> 0, text |-> EmptyMessage]

NoItem == Item(1, "", Null, Absent, "", Absent)

InitPure ==
    /\ rev \in Revisions
    /\ attempts = 1
    /\ jobData = (1 :> JobData("ORDER_CREATED", "pending", 1)
                  @@ 2 :> JobData("ORDER_STATUS_UPDATED", "completed", 2))
    /\ jobs = [j \in JobIds |-> NewJob]
    /\ wait = <<1, 2>>
    /\ active = NoJob
    /\ pc = "idle"
    /\ att = NewAttempt
    /\ sentLog = <<>>
    /\ workerError = FALSE
    /\ proc = "running"
    /\ calc \in {Application("item", i, OrderOf(<<>>), "ORDER_CREATED") : i \in ItemInputs}
            \cup {Application("order", NoItem, o, "ORDER_CREATED") : o \in OrderInputs}
            \cup {Application("render", NoItem, o, t) : o \in RenderInputs, t \in EventTypes}

\* the worker's own state, which applying a function leaves alone
Handler == <<rev, attempts, jobData, jobs, wait, active, pc, att, sentLog, workerError, proc>>

PriceItem ==
    /\ calc.kind = "item"
    /\ calc.stage = "input"
    /\ calc' = [calc EXCEPT !.stage = "done", !.price = calculateItemPrice(calc.item)]
    /\ UNCHANGED Handler

TotalOrder ==
    /\ calc.kind = "order"
    /\ calc.stage = "input"
    /\ calc' = [calc EXCEPT !.stage = "done", !.total = calculateOrderTotal(calc.order.items)]
    /\ UNCHANGED Handler

Render ==
    /\ calc.kind = "render"
    /\ calc.stage = "input"
    /\ calc' = [calc EXCEPT !.stage = "done",
                            !.text = formatOrderMessage(calc.order, calc.type)]
    /\ UNCHANGED Handler

NextPure ==
    \/ PriceItem
    \/ TotalOrder
    \/ Render

SpecPure == InitPure /\ [][NextPure]_vars

-----------------------------------------------------------------------------
(* Properties of the pricing functions *)

Priced == calc.kind = "item" /\ calc.stage = "done"

\* the flavor prices of a line, from whichever field carries the flavors
FlavorPricesOf(item) ==
    IF item.pizzaFlavors.has THEN Prices(item.pizzaFlavors.list)
    ELSE Prices(item.orderItemPizzaFlavors.list)

\* the strategy a line declares, "" when it declares none
DeclaredStrategy(item) ==
    IF item.pizzaPricingType # "" THEN item.pizzaPricingType
    ELSE item.pizzaConfigPricingType

\* the greatest element of a non-empty sequence of numbers
Greatest(ps) ==
    CHOOSE m \in {ps[i] : i \in 1..Len(ps)} : \A i \in 1..Len(ps) : m >= ps[i]

\* m is a nearest integer to s / n
NearestTo(m, s, n) == 2 * (n * m - s) <= n /\ 2 * (s - n * m) <= n

\* C12: with a non-empty flavor list calculateItemPrice returns the sum of the
\* flavor prices for "sum", the maximum for "max", the rounded mean for
\* "average" and for no strategy; flavors [500, 700] give 600, 1200, 700, 600.
\* With no flavors it returns the base price, or 0 when the price is absent.
C12_PriceByStrategy ==
    Priced =>
        LET ps == FlavorPricesOf(calc.item)
            t == DeclaredStrategy(calc.item)
        IN  IF Len(ps) > 0
            THEN /\ t = "sum" => calc.price = SumSeq(ps)
                 /\ t = "max" => calc.price = Greatest(ps)
                 /\ t \in {"average", ""} => NearestTo(calc.price, SumSeq(ps), Len(ps))
                 /\ ps = <<500, 700>> =>
                       /\ t = "average" => calc.price = 600
                       /\ t = "sum" => calc.price = 1200
                       /\ t = "max" => calc.price = 700
                       /\ t = "" => calc.price = 600
            ELSE calc.price = (IF calc.item.price = Null THEN 0 ELSE calc.item.price)

C12_Witness ==
    /\ Priced
    /\ FlavorPricesOf(calc.item) = <<700, 500>>
    /\ DeclaredStrategy(calc.item) = "max"
    /\ calc.price = 700

\* C13: with a non-empty flavor list and any value of the strategy field, the
\* result of calculateItemPrice does not change when the line's base price does.
C13_BasePriceIgnored ==
    (Priced /\ Len(FlavorPricesOf(calc.item)) > 0) =>
        \A p \in BasePrices :
            calculateItemPrice([calc.item EXCEPT !.price = p]) = calc.price

Totalled == calc.kind = "order" /\ calc.stage = "done"

\* the sequence s rearranged by the permutation f of its indices
Permuted(s, f) == [i \in 1..Len(s) |-> s[f[i]]]

\* the line with its complement list replaced, in the field that carries it
WithComplements(item, cs) ==
    IF item.complements.has THEN [item EXCEPT !.complements = Present(cs)]
    ELSE IF item.orderItemComplements.has
         THEN [item EXCEPT !.orderItemComplements = Present(cs)]
    ELSE item

\* sum over the complements of price * quantity, a null price counted as 0
ComplementsSum(cs) ==
    SumSeq([i \in 1..Len(cs) |->
                (IF cs[i].price = Null THEN 0 ELSE cs[i].price) * cs[i].quantity])

\* C14: calculateOrderTotal is the sum over the lines of (calculateItemPrice(line)
\* + sum over complements of price * quantity, null price as 0) * line.quantity;
\* an empty or absent complement list adds 0; permuting the lines, or the
\* complements of a line, leaves the total unchanged.
C14_TotalIsSum ==
    Totalled =>
        LET items == calc.order.items
        IN  /\ calc.total =
                  SumSeq([i \in 1..Len(items) |->
                            (calculateItemPrice(items[i])
                               + ComplementsSum(PricedComplements(items[i])))
                                * items[i].quantity])
            /\ \A f \in Permutations(1..Len(items)) :
                  calculateOrderTotal(Permuted(items, f)) = calc.total
            /\ \A i \in 1..Len(items) :
                  LET cs == PricedComplements(items[i])
                  IN  /\ \A f \in Permutations(1..Len(cs)) :
                            calculateOrderTotal(
                                [items EXCEPT ![i] = WithComplements(@, Permuted(cs, f))])
                              = calc.total
                      /\ cs = <<>> =>
                            calculateOrderTotal(<<items[i]>>)
                              = calculateItemPrice(items[i]) * items[i].quantity

C14_Witness ==
    /\ Totalled
    /\ Len(calc.order.items) = 1
    /\ PricedComplements(calc.order.items[1]) = <<Complement(2, 300), Complement(3, 50)>>
    /\ calc.total = (900 + 600 + 150) * 2

\* C15: with strategy "average" or none, and a non-empty list of non-negative
\* flavor prices of sum S and count N, calculateItemPrice returns
\* floor((2 * S + N) / (2 * N)): S / N rounded to the nearest integer, halves up.
C15_AverageRoundsHalfUp ==
    (Priced /\ DeclaredStrategy(calc.item) \in {"average", ""}
            /\ Len(FlavorPricesOf(calc.item)) > 0) =>
        LET S == SumSeq(FlavorPricesOf(calc.item))
            N == Len(FlavorPricesOf(calc.item))
        IN  /\ calc.price = (2 * S + N) \div (2 * N)
            /\ calc.price \in Nat

C15_Witness ==
    /\ Priced
    /\ DeclaredStrategy(calc.item) = "average"
    /\ FlavorPricesOf(calc.item) = <<500, 701>>
    /\ calc.price = 601

-----------------------------------------------------------------------------
(* Properties of the renderer *)

Rendered == calc.kind = "render" /\ calc.stage = "done"

\* the payment line the order calls for: cash with the change amount when a
\* change is set, cash without change, pix, and card for every other method
PaymentPhrase(order) ==
    IF order.paymentMethod = "cash"
    THEN IF order.change \notin {Null, 0}
         THEN "pay *Dinheiro (troco para " \o Currency(order.change) \o ")*"
         ELSE "pay *Dinheiro (nao precisa de troco)*"
    ELSE IF order.paymentMethod = "pix" THEN "pay *Pix*"
    ELSE "pay *Cartao*"

\* the delivery line the order calls for: dine-in for an absent or unknown code
DeliveryPhrase(order) ==
    CASE order.deliveryMethodCode = "delivery" -> "dlv *Delivery*"
      [] order.deliveryMethodCode = "pickup" -> "dlv *Retirada no local*"
      [] OTHER -> "dlv *Consumo no local*"

\* the positions of the line l in the text
PositionsOf(l, text) == {i \in 1..Len(text) : text[i] = l}

\* the position of the last line of the items block (the "*Itens:*" heading
\* when the order has no lines)
ItemsEnd(order) ==
    Len(Header(order))
      + Len(IF rev = "worker" THEN ItemLines_W(order.items) ELSE ItemLines_Full(order.items))

\* C17: the message of an ORDER_CREATED order has exactly one payment line and
\* exactly one delivery line, both after the item lines and before the total;
\* unknown payment methods read as card, absent or unknown delivery codes as
\* dine-in, cash shows the change when set and the no-change phrase otherwise.
C17_PaymentAndDeliveryLines ==
    (Rendered /\ calc.type = "ORDER_CREATED") =>
        LET text == calc.text
            pay == PositionsOf(PaymentPhrase(calc.order), text)
            dlv == PositionsOf(DeliveryPhrase(calc.order), text)
            total == PositionsOf(
                        "Total *" \o Currency(calculateOrderTotal(calc.order.items)) \o "*",
                        text)
        IN  /\ Cardinality(pay) = 1
            /\ Cardinality(dlv) = 1
            /\ \A i \in pay \cup dlv :
                  /\ i > ItemsEnd(calc.order)
                  /\ \A k \in total : i < k

\* C18: with type ORDER_STATUS_UPDATED the renderer returns the in-production
\* text for status "in_preparation", the in-transit text for "completed" and
\* the empty string for every other status, whatever the other fields are.
C18_StatusTexts ==
    (Rendered /\ calc.type = "ORDER_STATUS_UPDATED") =>
        /\ calc.order.status = "in_preparation" => calc.text = <<InProduction>>
        /\ calc.order.status = "completed" => calc.text = <<InTransit>>
        /\ calc.order.status \notin {"in_preparation", "completed"} => calc.text = <<>>

C18_Witness ==
    /\ Rendered
    /\ calc.type = "ORDER_STATUS_UPDATED"
    /\ calc.order.status = "in_preparation"
    /\ calc.order.paymentMethod = "voucher"
    /\ Len(calc.order.items) = 2
    /\ calc.text = <<InProduction>>

-----------------------------------------------------------------------------
(* Payloads that do not follow the OrderData type *)

\* an order without its items list
ItemlessOrder(status) == [Order(status) EXCEPT !.hasItems = FALSE, !.items = <<>>]

\* as Init, with a status update whose order may come without items
InitLoose ==
    /\ rev \in Revisions
    /\ attempts \in 1..MaxAttempts
    /\ \E s \in Statuses :
         \E o \in {Order(s), ItemlessOrder(s)} :
            jobData = (1 :> JobData("ORDER_CREATED", "pending", 1)
                       @@ 2 :> [JobData("ORDER_STATUS_UPDATED", s, 2) EXCEPT !.order = o])
    /\ jobs = [j \in JobIds |-> NewJob]
    /\ wait = <<1, 2>>
    /\ active = NoJob
    /\ pc = "idle"
    /\ att = NewAttempt
    /\ sentLog = <<>>
    /\ workerError = FALSE
    /\ proc = "running"
    /\ calc = NoCalc

SpecLoose == InitLoose /\ [][Next]_vars

\* C16: formatOrderMessage never throws and never fails the job, also for an
\* ORDER_STATUS_UPDATED payload without an items list: no attempt ends with a
\* TypeError raised before its first request.
C16_FormatNeverThrows ==
    (pc = "thrown" /\ att.nChecks = 0 /\ att.nSends = 0) => att.err # TypeError

-----------------------------------------------------------------------------
(* Properties of the readiness test and of the attempt's outcome *)

\* the attempt took the not-ready branch: a delayed re-run, or the 503 error
TookNotReadyBranch ==
    \/ pc = "returned" /\ Len(att.delays) = 1
    \/ pc = "thrown" /\ att.err = NotReadyError

\* C21: a successful readiness response whose instance.state is not exactly
\* "open" (no state, no instance, no body included) takes the not-ready
\* branch: the test raises no exception and the attempt sends nothing.
C21_NotOpenIsNotReady ==
    (HandlerEnded /\ att.ready = "ok" /\ att.body.state # "open") =>
        /\ att.err # TypeError
        /\ att.nSends = 0
        /\ TookNotReadyBranch

\* C22: an attempt reports one outcome: a handler that moved the job itself
\* (to delayed or to failed) does not also return normally, so a returning
\* handler leaves its job in the active list for the runtime to complete.
C22_OneOutcome ==
    pc = "returned" =>
        /\ jobs[active].state = "active"
        /\ Len(att.delays) = 0
        /\ ~att.movedFailed

\* C24: when the readiness request fails with anything other than not-found
\* (network fault, HTTP 5xx, HTTP 401), the attempt makes no send call, never
\* reaches the send step and ends by throwing to the queue runtime.
C24_ReadinessFailureThrows ==
    (att.ready = "fault" /\ att.checkErr.respStatus # 404) =>
        /\ att.nSends = 0
        /\ pc # "send"
        /\ HandlerEnded => (pc = "thrown" /\ att.err # NoErr)

C24_Witness ==
    /\ pc = "thrown"
    /\ att.ready = "fault"
    /\ att.checkErr.respStatus = 401
    /\ att.nSends = 0
    /\ att.err # NoErr

-----------------------------------------------------------------------------
(* A queue store that rejects job.log *)

\* the reply of a store that is out of memory, as job.log rejects with it
LogFaults == { Err("ReplyError", NoCode, NoStatus, NoStatus, <<>>,
                   <<"OOM", "command", "not", "allowed">>) }

\* the gateway accepted the POST and the job.log that follows in the same try
\* block rejects with e: the catch block handles e as if the send had failed
SentThenLogRejected(a, e) ==
    /\ pc' = "thrown"
    /\ att' = [a EXCEPT !.sendRes = "ok", !.err = e]
    /\ sentLog' = Append(sentLog, [job |-> active, text |-> a.message])
    /\ UNCHANGED jobs

LogRejects_W ==
    /\ rev = "worker"
    /\ pc = "send"
    /\ \E e \in LogFaults :
          IF isTemporaryProviderError_W(e)
          THEN SentThenLogRejected(Posted(att), e)
          ELSE SentThenLogRejected(Posted(att),
                  PlainError(NoStatus,
                             <<"Falha", "permanente", "ao", "enviar", "mensagem:">>
                                 \o e.message))
    /\ UNCHANGED <<Static, wait, active, workerError>>

\* part_000 lines 260-270: a fault that is not temporary is logged (that
\* job.log may reject too) and the job is moved to failed
LogRejects_0a ==
    /\ rev = "part0a"
    /\ pc = "send"
    /\ \E e \in LogFaults :
          IF isTemporaryProviderError_0a(e)
          THEN SentThenLogRejected(Posted(att), e)
          ELSE \/ SentThenLogRejected(Posted(att), e)
               \/ /\ jobs' = [jobs EXCEPT ![active].state = "failed"]
                  /\ att' = [Posted(att) EXCEPT !.sendRes = "ok", !.movedFailed = TRUE]
                  /\ sentLog' = Append(sentLog, [job |-> active, text |-> att.message])
                  /\ pc' = "returned"
    /\ UNCHANGED <<Static, wait, active, workerError>>

\* part_000 lines 575-591: e has no response, every branch rethrows it
LogRejects_0b ==
    /\ rev = "part0b"
    /\ pc = "send"
    /\ \E e \in LogFaults :
          IF e.respStatus = 404
          THEN SendAccepted(Posted(att))
          ELSE SentThenLogRejected(Posted(att), e)
    /\ UNCHANGED <<Static, wait, active, workerError>>

\* part_001 lines 196-207: every branch rethrows
LogRejects_1 ==
    /\ rev = "part1"
    /\ pc = "send"
    /\ \E e \in LogFaults : SentThenLogRejected(Posted(att), e)
    /\ UNCHANGED <<Static, wait, active, workerError>>

NextStore ==
    \/ Next
    \/ LogRejects_W
    \/ LogRejects_0a
    \/ LogRejects_0b
    \/ LogRejects_1

SpecStore == Init /\ [][NextStore]_vars

\* the sends of job j that the gateway accepted, over all its attempts
AcceptedSends(j) == {i \in 1..Len(sentLog) : sentLog[i].job = j}

\* C23: over all attempts of one job the gateway accepts at most one send: a
\* failure that follows a successful send in the same attempt (the job.log
\* after it) never has the attempt retried and the message sent again.
C23_AtMostOneAcceptedSend ==
    \A j \in JobIds : Cardinality(AcceptedSends(j)) <= 1

-----------------------------------------------------------------------------
(* Pricing against rendering *)

\* the complements of a line whose price is added to the order total
ChargedComplements(item) ==
    LET cs == PricedComplements(item)
    IN  {cs[k] : k \in {n \in 1..Len(cs) : OrZero(cs[n].price) * cs[n].quantity > 0}}

\* the lines of a text, as a set
LinesOf(text) == {text[i] : i \in 1..Len(text)}

\* C25: for an ORDER_CREATED order, every complement whose price is added to
\* the total by calculateOrderTotal is shown in the rendered message, whether
\* the line carries it as complements or as orderItemComplements.
C25_ChargedComplementsShown ==
    (Rendered /\ calc.type = "ORDER_CREATED") =>
        \A i \in 1..Len(calc.order.items) :
            \A c \in ChargedComplements(calc.order.items[i]) :
                /\ "_Complementos_" \in LinesOf(calc.text)
                /\ (QtyPrefix(c.quantity) \o c.name) \in LinesOf(calc.text)

====
